---------------------------- MODULE Spec2Model ----------------------------
(***************************************************************************)
(* Model of the URL shortener's multi-index key-value engine:              *)
(*   src/bst.py   RedBlackTree (insert, _fix_insert, rotations, search,    *)
(*                inorder_traversal)                                       *)
(*   src/main.py  url_map, the two cuckoo tables, access_counter and the   *)
(*                most_frequent heap, and the handlers shorten_url (put),  *)
(*                redirect_to_url (get), get_index / get_popular_urls      *)
(*                (topPopular).                                            *)
(*                                                                         *)
(* Keys are the 7-digit lowercase hex strings hash_url produces.  A key    *)
(* is represented by the integer its hex digits denote: for fixed-length   *)
(* lowercase hex strings Python's string order is the numeric order, so    *)
(* "<" on keys is the comparison bst.py performs.                          *)
(*                                                                         *)
(* Python's None for an Optional[str] is <<>> and a present string s is    *)
(* <<s>>; a cuckoo slot is <<>> (None) or the pair <<key, value>>.         *)
(***************************************************************************)
EXTENDS Integers, Sequences, FiniteSets, TLC

VARIABLES
    url_map,        \* main.py:34  dict short_url -> original_url
    cuckoo_table1,  \* main.py:41  slot index -> <<key, value>> (absent = None)
    cuckoo_table2,  \* main.py:42
    url_tree,       \* main.py:37  RedBlackTree: [root, node]
    access_counter, \* main.py:35  Counter: key -> count (absent = untracked)
    most_frequent,  \* main.py:36  heapq list of <<-count, key>>
    response,       \* what the last handler returned to its caller
    put_log,        \* history: key -> value of the latest put / insert of it
    last_cuckoo     \* history: return value of the latest cuckoo_insert call

vars == <<url_map, cuckoo_table1, cuckoo_table2, url_tree, access_counter,
          most_frequent, response, put_log, last_cuckoo>>

---------------------------------------------------------------------------
(* Bounds and inputs *)

\* The keys the model draws from, as hex strings:
\*   0000515 0002682 0004ffe  (md5 % 1024 = 633 and sha1 % 1024 = 789, all three)
\*   00004a0                  (md5 % 1024 = 633, sha1 % 1024 = 1)
\*   000001b                  (md5 % 1024 = 938, sha1 % 1024 = 789)
\*   00005e9 0000190 00008cd 0000984
\*   000028d                  (md5 % 1024 = 938, sha1 % 1024 = 473)
KEYS == <<1301, 9858, 20478, 1184, 27, 1513, 400, 2253, 2436, 653>>

\* Number of keys of KEYS used by the tree-only specification.
NumTreeKeys == 8
\* Number of keys of KEYS used by the cuckoo-only specification.
NumCuckooKeys == 5
\* Number of keys of KEYS stored in the popularity specification.
NumPopKeys == 6
\* Cap on a key's access count in the whole-store specification.
MaxCount == 1
\* Cap on a key's access count in the popularity specification.
MaxPopCount == 2

KeysUpTo(n) == {KEYS[i] : i \in 1..(IF n <= Len(KEYS) THEN n ELSE Len(KEYS))}
\* The keys of the whole-store specification: the three keys whose two
\* hashes all coincide, the fewest that exhaust a displacement chain.
StoreKeys == {KEYS[1], KEYS[2], KEYS[3]}
TreeKeys == KeysUpTo(NumTreeKeys)
\* The first keys of KEYS and the last one, which shares its table-1 slot
\* with KEYS[5] alone.
CuckooKeys == KeysUpTo(NumCuckooKeys) \cup {KEYS[Len(KEYS)]}
PopKeys == KeysUpTo(NumPopKeys)

\* The url form field of POST /shorten, before normalisation.
RawUrls == {"", "http://a"}

None == <<>>

\* dict[k] = v / list[i] = v on a table kept as a function on its present keys
DictSet(d, k, v) == IF k \in DOMAIN d THEN [d EXCEPT ![k] = v] ELSE (k :> v) @@ d
\* dict.get(k)
DictGet(d, k) == IF k \in DOMAIN d THEN <<d[k]>> ELSE None

---------------------------------------------------------------------------
(* bst.py: RedBlackTree.  A node is named by its key (a key has at most    *)
(* one node and nodes are never freed); NIL is the shared sentinel and     *)
(* NoNode is the None a root's parent field holds.                         *)

NIL == -1
NoNode == -2
RED == TRUE
BLACK == FALSE

EmptyTree == [root |-> NIL, node |-> <<>>]

\* node.color, the sentinel's color included (bst.py:14: NIL is black)
Color(t, n) == IF n = NIL THEN BLACK ELSE t.node[n].color

\* left_rotate that always relinks y as its new parent's left child.
left_rotate_always_left(t, x) ==
    LET y  == t.node[x].right
        yl == t.node[y].left
        xp == t.node[x].parent
        n1 == [t.node EXCEPT ![x].right = yl]
        n2 == IF yl # NIL THEN [n1 EXCEPT ![yl].parent = x] ELSE n1
        n3 == [n2 EXCEPT ![y].parent = xp]
        n4 == IF xp = NoNode THEN n3 ELSE [n3 EXCEPT ![xp].left = y]
        n5 == [n4 EXCEPT ![y].left = x, ![x].parent = y]
    IN [root |-> IF xp = NoNode THEN y ELSE t.root, node |-> n5]

left_rotate(t, x) ==
    LET y  == t.node[x].right
        yl == t.node[y].left
        xp == t.node[x].parent
        n1 == [t.node EXCEPT ![x].right = yl]
        n2 == IF yl # NIL THEN [n1 EXCEPT ![yl].parent = x] ELSE n1
        n3 == [n2 EXCEPT ![y].parent = xp]
        n4 == IF xp = NoNode THEN n3
              ELSE IF x = n3[xp].left THEN [n3 EXCEPT ![xp].left = y]
              ELSE [n3 EXCEPT ![xp].right = y]
        n5 == [n4 EXCEPT ![y].left = x, ![x].parent = y]
    IN [root |-> IF xp = NoNode THEN y ELSE t.root, node |-> n5]

right_rotate(t, x) ==
    LET y  == t.node[x].left
        yr == t.node[y].right
        xp == t.node[x].parent
        n1 == [t.node EXCEPT ![x].left = yr]
        n2 == IF yr # NIL THEN [n1 EXCEPT ![yr].parent = x] ELSE n1
        n3 == [n2 EXCEPT ![y].parent = xp]
        n4 == IF xp = NoNode THEN n3
              ELSE IF x = n3[xp].right THEN [n3 EXCEPT ![xp].right = y]
              ELSE [n3 EXCEPT ![xp].left = y]
        n5 == [n4 EXCEPT ![y].right = x, ![x].parent = y]
    IN [root |-> IF xp = NoNode THEN y ELSE t.root, node |-> n5]

\* One uncle-red step (bst.py:63-66 / 77-80): recolor, continue at the grandparent.
RecolorUp(t, p, g, u) ==
    [t EXCEPT !.node[u].color = BLACK, !.node[p].color = BLACK, !.node[g].color = RED]

\* RecolorForRotation without the grandparent's recoloring.
RecolorForRotation_parent_only(t, k) ==
    LET p == t.node[k].parent
    IN [t EXCEPT !.node[p].color = BLACK]

\* bst.py:71-72 / 85-86: parent black, grandparent red.
RecolorForRotation(t, k) ==
    LET p == t.node[k].parent
        g == t.node[p].parent
    IN [t EXCEPT !.node[p].color = BLACK, !.node[g].color = RED]

\* The while loop of _fix_insert and the final root.color = False.
RECURSIVE fix_insert(_, _)
fix_insert(t, k) ==
    IF k # t.root /\ Color(t, t.node[k].parent) = RED
    THEN LET p == t.node[k].parent
             g == t.node[p].parent
             step ==
               IF p = t.node[g].right
               THEN LET u == t.node[g].left IN
                    IF Color(t, u) = RED
                    THEN [t |-> RecolorUp(t, p, g, u), k |-> g]
                    ELSE LET tri == (k = t.node[p].left)
                             k1  == IF tri THEN p ELSE k
                             ta  == IF tri THEN right_rotate(t, k1) ELSE t
                             tb  == RecolorForRotation(ta, k1)
                             g1  == tb.node[tb.node[k1].parent].parent
                         IN [t |-> left_rotate(tb, g1), k |-> k1]
               ELSE LET u == t.node[g].right IN
                    IF Color(t, u) = RED
                    THEN [t |-> RecolorUp(t, p, g, u), k |-> g]
                    ELSE LET tri == (k = t.node[p].right)
                             k1  == IF tri THEN p ELSE k
                             ta  == IF tri THEN left_rotate(t, k1) ELSE t
                             tb  == RecolorForRotation(ta, k1)
                             g1  == tb.node[tb.node[k1].parent].parent
                         IN [t |-> right_rotate(tb, g1), k |-> k1]
         IN IF step.k = step.t.root
            THEN [step.t EXCEPT !.node[step.t.root].color = BLACK]
            ELSE fix_insert(step.t, step.k)
    ELSE [t EXCEPT !.node[t.root].color = BLACK]

\* The descent of insert (bst.py:24-36): the node holding key, or the parent
\* under which a new node goes.
RECURSIVE Descend(_, _, _, _)
Descend(t, x, y, key) ==
    IF x = NIL THEN [found |-> FALSE, y |-> y]
    ELSE IF key < x THEN Descend(t, t.node[x].left, x, key)
    ELSE IF key > x THEN Descend(t, t.node[x].right, x, key)
    ELSE [found |-> TRUE, y |-> x]

\* The color a new node is created with (bst.py:19).
NewNodeColor == RED

\* insert from the end of the descent on (bst.py:38-56): link the new node
\* under y, the last node the descent visited, and restore the colors.
insert_new_node(t, key, value, y) ==
    LET new == [value |-> value, left |-> NIL, right |-> NIL,
                parent |-> y, color |-> NewNodeColor]
        n1  == DictSet(t.node, key, new)
        n2  == IF y = NoNode THEN n1
               ELSE IF key < y THEN [n1 EXCEPT ![y].left = key]
               ELSE [n1 EXCEPT ![y].right = key]
        t1  == [root |-> IF y = NoNode THEN key ELSE t.root, node |-> n2]
    IN IF y = NoNode
       THEN [t1 EXCEPT !.node[key].color = BLACK]
       ELSE IF t1.node[y].parent = NoNode
       THEN t1
       ELSE fix_insert(t1, key)

\* insert that gives the node of an existing key the color of a new node.
insert_recolor_existing(t, key, value) ==
    LET d == Descend(t, t.root, NoNode, key) IN
    IF d.found
    THEN [t EXCEPT !.node[key].value = value, !.node[key].color = NewNodeColor]
    ELSE insert_new_node(t, key, value, d.y)

insert(t, key, value) ==
    LET d == Descend(t, t.root, NoNode, key) IN
    IF d.found
    THEN [t EXCEPT !.node[key].value = value]
    ELSE insert_new_node(t, key, value, d.y)

\* search_helper that descends to the right for a smaller key.
RECURSIVE search_helper_swapped(_, _, _)
search_helper_swapped(t, node, key) ==
    IF node = NIL THEN None
    ELSE IF key = node THEN <<t.node[node].value>>
    ELSE IF key < node THEN search_helper_swapped(t, t.node[node].right, key)
    ELSE search_helper_swapped(t, t.node[node].left, key)

RECURSIVE search_helper(_, _, _)
search_helper(t, node, key) ==
    IF node = NIL THEN None
    ELSE IF key = node THEN <<t.node[node].value>>
    ELSE IF key < node THEN search_helper(t, t.node[node].left, key)
    ELSE search_helper(t, t.node[node].right, key)

search(t, key) == search_helper(t, t.root, key)

RECURSIVE inorder_helper(_, _)
inorder_helper(t, node) ==
    IF node = NIL THEN <<>>
    ELSE inorder_helper(t, t.node[node].left)
         \o <<<<node, t.node[node].value>>>>
         \o inorder_helper(t, t.node[node].right)

inorder_traversal(t) == inorder_helper(t, t.root)

---------------------------------------------------------------------------
(* Red-black properties of a tree value *)

\* Number of black nodes on every path from n down to the sentinel, the
\* sentinel not counted; -1 when two paths disagree.
RECURSIVE BlackHeight(_, _)
BlackHeight(t, n) ==
    IF n = NIL THEN 0
    ELSE LET l == BlackHeight(t, t.node[n].left)
             r == BlackHeight(t, t.node[n].right)
         IN IF l < 0 \/ r < 0 \/ l # r THEN -1
            ELSE l + (IF t.node[n].color = BLACK THEN 1 ELSE 0)

RootBlack(t) == Color(t, t.root) = BLACK
NoRedRed(t) ==
    \A n \in DOMAIN t.node :
        t.node[n].color = RED =>
            /\ Color(t, t.node[n].left) = BLACK
            /\ Color(t, t.node[n].right) = BLACK
BlackBalanced(t) == BlackHeight(t, t.root) >= 0

\* Every node is reached from the root by the child links, and the parent
\* links are their inverse.
RECURSIVE Reach(_, _)
Reach(t, n) ==
    IF n = NIL THEN {}
    ELSE {n} \cup Reach(t, t.node[n].left) \cup Reach(t, t.node[n].right)

LinksConsistent(t) ==
    /\ Reach(t, t.root) = DOMAIN t.node
    /\ t.root # NIL => t.node[t.root].parent = NoNode
    /\ \A n \in DOMAIN t.node :
         /\ t.node[n].left # NIL => t.node[t.node[n].left].parent = n
         /\ t.node[n].right # NIL => t.node[t.node[n].right].parent = n

StrictlyAscending(s) == \A i \in 1..(Len(s) - 1) : s[i][1] < s[i + 1][1]

---------------------------------------------------------------------------
(* main.py: cuckoo hash tables *)

CUCKOO_SIZE == 1024
MAX_ITERATIONS == 100

\* The low 16 bits of hashlib.md5(key.encode()).hexdigest() read as a
\* hexadecimal number (its last four hex digits), for the keys of KEYS.
Md5Low16(key) ==
    CASE key = 1301  -> 22137   \* md5("0000515") = ...5679
      [] key = 9858  -> 8825    \* md5("0002682") = ...2279
      [] key = 20478 -> 65145   \* md5("0004ffe") = ...fe79
      [] key = 1184  -> 9849    \* md5("00004a0") = ...2679
      [] key = 27    -> 40874   \* md5("000001b") = ...9faa
      [] key = 1513  -> 25209   \* md5("00005e9") = ...6279
      [] key = 400   -> 33222   \* md5("0000190") = ...81c6
      [] key = 2253  -> 45195   \* md5("00008cd") = ...b08b
      [] key = 2436  -> 29305   \* md5("0000984") = ...7279
      [] key = 653   -> 42922   \* md5("000028d") = ...a7aa

\* The same for hashlib.sha1.
Sha1Low16(key) ==
    CASE key = 1301  -> 5909    \* sha1("0000515") = ...1715
      [] key = 9858  -> 21269   \* sha1("0002682") = ...5315
      [] key = 20478 -> 51989   \* sha1("0004ffe") = ...cb15
      [] key = 1184  -> 44033   \* sha1("00004a0") = ...ac01
      [] key = 27    -> 48917   \* sha1("000001b") = ...bf15
      [] key = 1513  -> 35230   \* sha1("00005e9") = ...899e
      [] key = 400   -> 12053   \* sha1("0000190") = ...2f15
      [] key = 2253  -> 57109   \* sha1("00008cd") = ...df15
      [] key = 2436  -> 33479   \* sha1("0000984") = ...82c7
      [] key = 653   -> 8665    \* sha1("000028d") = ...21d9

\* int(digest, 16) % CUCKOO_SIZE: CUCKOO_SIZE divides 2^16, so the low 16
\* bits of the digest decide it.
cuckoo_hash1(key) == Md5Low16(key) % CUCKOO_SIZE
cuckoo_hash2(key) == Sha1Low16(key) % CUCKOO_SIZE

\* table[pos], None for a slot never written (the tables start [None] * CUCKOO_SIZE)
Slot(table, pos) == IF pos \in DOMAIN table THEN table[pos] ELSE None

\* The test both tables use before writing a slot (main.py:103, 116).
SlotFree(table, pos, key) ==
    IF Slot(table, pos) = None THEN TRUE ELSE Slot(table, pos)[1] = key

\* cuckoo_iteration that places the evicted pair in table 2 at its first hash.
cuckoo_iteration_same_hash(st) ==
    LET pos1 == cuckoo_hash1(st.key) IN
    IF SlotFree(st.t1, pos1, st.key)
    THEN [st EXCEPT !.t1 = DictSet(st.t1, pos1, <<st.key, st.value>>),
                    !.iterations = @ + 1,
                    !.returned = TRUE]
    ELSE LET out1 == st.t1[pos1]
             t1a  == DictSet(st.t1, pos1, <<st.key, st.value>>)
             pos2 == cuckoo_hash1(out1[1])
         IN IF SlotFree(st.t2, pos2, out1[1])
            THEN [st EXCEPT !.t1 = t1a, !.t2 = DictSet(st.t2, pos2, out1),
                            !.key = out1[1], !.value = out1[2],
                            !.iterations = @ + 1, !.evicted = @ + 1,
                            !.returned = TRUE]
            ELSE [st EXCEPT !.t1 = t1a, !.t2 = DictSet(st.t2, pos2, out1),
                            !.key = st.t2[pos2][1], !.value = st.t2[pos2][2],
                            !.iterations = @ + 1, !.evicted = @ + 2]

\* cuckoo_iteration whose table-2 eviction overwrites the occupant and
\* carries on with the pair it has just written.
cuckoo_iteration_overwrite(st) ==
    LET pos1 == cuckoo_hash1(st.key) IN
    IF SlotFree(st.t1, pos1, st.key)
    THEN [st EXCEPT !.t1 = DictSet(st.t1, pos1, <<st.key, st.value>>),
                    !.iterations = @ + 1,
                    !.returned = TRUE]
    ELSE LET out1 == st.t1[pos1]
             t1a  == DictSet(st.t1, pos1, <<st.key, st.value>>)
             pos2 == cuckoo_hash2(out1[1])
         IN IF SlotFree(st.t2, pos2, out1[1])
            THEN [st EXCEPT !.t1 = t1a, !.t2 = DictSet(st.t2, pos2, out1),
                            !.key = out1[1], !.value = out1[2],
                            !.iterations = @ + 1, !.evicted = @ + 1,
                            !.returned = TRUE]
            ELSE [st EXCEPT !.t1 = t1a, !.t2 = DictSet(st.t2, pos2, out1),
                            !.key = out1[1], !.value = out1[2],
                            !.iterations = @ + 1, !.evicted = @ + 2]

\* One pass through the body of cuckoo_insert's for loop (main.py:100-125)
\* with the pair <<key, value>> in hand.  returned says whether the pass
\* ended in one of the two "return True"; iterations counts the passes
\* begun and evicted the occupants kicked out (main.py:108-112, 121-125).
cuckoo_iteration(st) ==
    LET pos1 == cuckoo_hash1(st.key) IN
    IF SlotFree(st.t1, pos1, st.key)
    THEN [st EXCEPT !.t1 = DictSet(st.t1, pos1, <<st.key, st.value>>),
                    !.iterations = @ + 1,
                    !.returned = TRUE]
    ELSE LET out1 == st.t1[pos1]
             t1a  == DictSet(st.t1, pos1, <<st.key, st.value>>)
             pos2 == cuckoo_hash2(out1[1])
         IN IF SlotFree(st.t2, pos2, out1[1])
            THEN [st EXCEPT !.t1 = t1a, !.t2 = DictSet(st.t2, pos2, out1),
                            !.key = out1[1], !.value = out1[2],
                            !.iterations = @ + 1, !.evicted = @ + 1,
                            !.returned = TRUE]
            ELSE [st EXCEPT !.t1 = t1a, !.t2 = DictSet(st.t2, pos2, out1),
                            !.key = st.t2[pos2][1], !.value = st.t2[pos2][2],
                            !.iterations = @ + 1, !.evicted = @ + 2]

\* for _ in range(iters): leave at the first return.  The iterations are
\* run as two halves, which keeps the evaluation depth logarithmic in iters.
RECURSIVE cuckoo_loop(_, _)
cuckoo_loop(st, iters) ==
    IF st.returned \/ iters = 0 THEN st
    ELSE IF iters = 1 THEN cuckoo_iteration(st)
    ELSE cuckoo_loop(cuckoo_loop(st, iters \div 2), iters - (iters \div 2))

\* The loop state cuckoo_insert(key, value) starts from.
cuckoo_start(t1, t2, key, value) ==
    [t1 |-> t1, t2 |-> t2, key |-> key, value |-> value,
     returned |-> FALSE, iterations |-> 0, evicted |-> 0]

\* cuckoo_insert whose loop makes one pass more than max_iterations.
cuckoo_insert_one_more(t1, t2, key, value) ==
    cuckoo_loop(cuckoo_start(t1, t2, key, value), MAX_ITERATIONS + 1)

\* cuckoo_insert: the state the loop ends in.  returned is the function's
\* return value; when it is FALSE, <<key, value>> is the pair the function
\* still held when it gave up.
cuckoo_insert(t1, t2, key, value) ==
    cuckoo_loop(cuckoo_start(t1, t2, key, value), MAX_ITERATIONS)

cuckoo_lookup(t1, t2, key) ==
    LET pos1 == cuckoo_hash1(key)
        pos2 == cuckoo_hash2(key)
    IN IF Slot(t1, pos1) # None /\ Slot(t1, pos1)[1] = key
       THEN <<Slot(t1, pos1)[2]>>
       ELSE IF Slot(t2, pos2) # None /\ Slot(t2, pos2)[1] = key
       THEN <<Slot(t2, pos2)[2]>>
       ELSE None

\* The keys held somewhere in a table.
TableKeys(table) == {table[i][1] : i \in DOMAIN table}

\* The pairs held somewhere in a table.
TablePairs(table) == {table[i] : i \in DOMAIN table}

---------------------------------------------------------------------------
(* main.py: access_counter and the most_frequent heap.  heapq's list is a  *)
(* sequence; position pos of the Python list is element pos + 1 here.      *)

\* "<" that compares the counts only.
ItemLess_count_only(a, b) == a[1] < b[1]

\* Python's "<" on the tuples (-count, url)
ItemLess(a, b) == a[1] < b[1] \/ (a[1] = b[1] /\ a[2] < b[2])

\* heapq._siftdown: move newitem up from pos while it is below its parent
RECURSIVE siftdown(_, _, _, _)
siftdown(heap, startpos, pos, newitem) ==
    IF pos > startpos /\ ItemLess(newitem, heap[((pos - 1) \div 2) + 1])
    THEN siftdown([heap EXCEPT ![pos + 1] = heap[((pos - 1) \div 2) + 1]],
                  startpos, (pos - 1) \div 2, newitem)
    ELSE [heap EXCEPT ![pos + 1] = newitem]

\* heapq._siftup: bubble the smaller child up to a leaf, then _siftdown
RECURSIVE siftup_loop(_, _, _, _)
siftup_loop(heap, startpos, pos, newitem) ==
    LET endpos   == Len(heap)
        leftpos  == 2 * pos + 1
        rightpos == leftpos + 1
        childpos == IF rightpos < endpos
                       /\ ~ItemLess(heap[leftpos + 1], heap[rightpos + 1])
                    THEN rightpos ELSE leftpos
    IN IF leftpos < endpos
       THEN siftup_loop([heap EXCEPT ![pos + 1] = heap[childpos + 1]],
                        startpos, childpos, newitem)
       ELSE siftdown(heap, startpos, pos, newitem)

siftup(heap, pos) == siftup_loop(heap, pos, pos, heap[pos + 1])

\* heapq.heapify: for i in reversed(range(n // 2)): _siftup(x, i)
RECURSIVE heapify_from(_, _)
heapify_from(heap, i) ==
    IF i < 0 THEN heap ELSE heapify_from(siftup(heap, i), i - 1)

heapify(heap) == heapify_from(heap, (Len(heap) \div 2) - 1)

heappush(heap, item) == siftdown(Append(heap, item), 0, Len(heap), item)

\* heapq.heappop: [item |-> the smallest item, heap |-> the list afterwards]
heappop(heap) ==
    LET lastelt == heap[Len(heap)]
        rest    == SubSeq(heap, 1, Len(heap) - 1)
    IN IF rest # <<>>
       THEN [item |-> rest[1], heap |-> siftup([rest EXCEPT ![1] = lastelt], 0)]
       ELSE [item |-> lastelt, heap |-> rest]

\* Counter()[k]: 0 for a key never counted
CountOf(counter, key) == IF key \in DOMAIN counter THEN counter[key] ELSE 0

\* The increment update_frequency applies to the key's count (main.py:147).
Increment == 1

\* Positions (1-based) of the heap entries for the key.
EntriesOf(heap, key) == {i \in 1..Len(heap) : heap[i][2] = key}

\* update_frequency that pushes a new heap entry on every access.
update_frequency_always_push(counter, heap, short_url) ==
    LET count == CountOf(counter, short_url) + Increment
    IN [counter |-> DictSet(counter, short_url, count),
        heap    |-> heappush(heap, <<-count, short_url>>)]

\* update_frequency that counts every key under the first key counted.
update_frequency_first_key(counter, heap, short_url) ==
    LET k     == IF DOMAIN counter = {} THEN short_url
                 ELSE CHOOSE x \in DOMAIN counter : \A y \in DOMAIN counter : x <= y
        count == CountOf(counter, k) + Increment
        found == EntriesOf(heap, k)
        first == CHOOSE i \in found : \A j \in found : i <= j
    IN [counter |-> DictSet(counter, k, count),
        heap    |-> IF found # {}
                    THEN heapify([heap EXCEPT ![first] = <<-count, k>>])
                    ELSE heappush(heap, <<-count, k>>)]

\* update_frequency: [counter, heap] afterwards
update_frequency(counter, heap, short_url) ==
    LET count == CountOf(counter, short_url) + Increment
        found == EntriesOf(heap, short_url)
        first == CHOOSE i \in found : \A j \in found : i <= j
    IN [counter |-> DictSet(counter, short_url, count),
        heap    |-> IF found # {}
                    THEN heapify([heap EXCEPT ![first] = <<-count, short_url>>])
                    ELSE heappush(heap, <<-count, short_url>>)]

\* The loop get_index, shorten_url and get_popular_urls share: pop
\* min(n, len) items off a copy of the heap and keep those whose key is in
\* url_map, as <<short_url, original_url, count>>.
RECURSIVE popular_loop(_, _, _, _)
popular_loop(heap_copy, um, rounds, acc) ==
    IF rounds = 0 \/ heap_copy = <<>> THEN acc
    ELSE LET p == heappop(heap_copy)
             e == p.item
         IN popular_loop(p.heap, um, rounds - 1,
                         IF e[2] \in DOMAIN um
                         THEN Append(acc, <<e[2], um[e[2]], -e[1]>>)
                         ELSE acc)

Min(a, b) == IF a <= b THEN a ELSE b

\* popular_urls that reads the first entries of the heap list as they lie.
popular_urls_list_order(heap, um, n) ==
    LET m == Min(n, Len(heap)) IN
    [i \in 1..m |-> <<heap[i][2], um[heap[i][2]], -heap[i][1]>>]

popular_urls(heap, um, n) == popular_loop(heap, um, Min(n, Len(heap)), <<>>)

\* The number of entries GET / and POST /shorten show, and GET /stats/popular.
INDEX_TOP == 5
STATS_TOP == 10

---------------------------------------------------------------------------
(* main.py: the handlers *)

StartsWith(s, prefix) ==
    Len(s) >= Len(prefix) /\ SubSeq(s, 1, Len(prefix)) = prefix

\* NormaliseUrl that stores the submitted url as it came.
NormaliseUrl_as_given(url) == url

\* shorten_url's normalisation of the submitted url (main.py:294-295)
NormaliseUrl(url) ==
    IF StartsWith(url, "http://") \/ StartsWith(url, "https://")
    THEN url ELSE "https://" \o url

\* Python's "not x" for an Optional[str]: None and "" are both falsy
Falsy(o) == IF o = None THEN TRUE ELSE o[1] = ""

\* lookup_url that probes the cuckoo tables before url_map.
lookup_url_cuckoo_first(um, t1, t2, tree, short_url) ==
    LET a == cuckoo_lookup(t1, t2, short_url)
        b == IF Falsy(a) THEN DictGet(um, short_url) ELSE a
        c == IF Falsy(b) THEN search(tree, short_url) ELSE b
    IN c

\* lookup that reads the cuckoo tables first and url_map second.
lookup_cuckoo_first(um, t1, t2, tree, short_url) ==
    LET a == cuckoo_lookup(t1, t2, short_url)
        b == IF Falsy(a) THEN DictGet(um, short_url) ELSE a
        c == IF Falsy(b) THEN search(tree, short_url) ELSE b
    IN [value  |-> c,
        probes |-> <<"cuckoo">>
                   \o (IF Falsy(a) THEN <<"url_map">> ELSE <<>>)
                   \o (IF Falsy(b) THEN <<"tree">> ELSE <<>>)]

\* The three lookups of redirect_to_url with the structures read on the way,
\* in the order they are read: url_map.get always (main.py:337),
\* cuckoo_lookup under the first "if not original_url" (339-341),
\* url_tree.search under the second (343-345).
lookup(um, t1, t2, tree, short_url) ==
    LET a == DictGet(um, short_url)
        b == IF Falsy(a) THEN cuckoo_lookup(t1, t2, short_url) ELSE a
        c == IF Falsy(b) THEN search(tree, short_url) ELSE b
    IN [value  |-> c,
        probes |-> <<"url_map">>
                   \o (IF Falsy(a) THEN <<"cuckoo">> ELSE <<>>)
                   \o (IF Falsy(b) THEN <<"tree">> ELSE <<>>)]

\* original_url as redirect_to_url holds it after the three lookups
\* (main.py:337-345): url_map, then the cuckoo tables, then the tree.
lookup_url(um, t1, t2, tree, short_url) ==
    lookup(um, t1, t2, tree, short_url).value

STATUS_OK == 200
STATUS_REDIRECT == 307
STATUS_NOT_FOUND == 404

\* shorten that stops at a failed cuckoo_insert, before the tree insert.
shorten_stop_when_full(s, short_hash, raw) ==
    LET url == NormaliseUrl(raw) IN
    CHOOSE r \in {[url_map |-> DictSet(s.url_map, short_hash, url),
                   t1      |-> ck.t1,
                   t2      |-> ck.t2,
                   ok      |-> ck.returned,
                   tree    |-> IF ck.returned
                               THEN insert(s.tree, short_hash, url) ELSE s.tree,
                   url     |-> url]
                  : ck \in {cuckoo_insert(s.t1, s.t2, short_hash, url)}} : TRUE

\* The in-memory effect of shorten_url (main.py:294-307) on the three
\* indexes: s is [url_map, t1, t2, tree], the result adds cuckoo_insert's
\* return value, which the handler discards.
shorten(s, short_hash, raw) ==
    LET url == NormaliseUrl(raw) IN
    CHOOSE r \in {[url_map |-> DictSet(s.url_map, short_hash, url),
                   t1      |-> ck.t1,
                   t2      |-> ck.t2,
                   ok      |-> ck.returned,
                   tree    |-> insert(s.tree, short_hash, url),
                   url     |-> url]
                  : ck \in {cuckoo_insert(s.t1, s.t2, short_hash, url)}} : TRUE

Store == [url_map |-> url_map, t1 |-> cuckoo_table1, t2 |-> cuckoo_table2,
          tree |-> url_tree]

\* POST /shorten that also enters a key not counted yet into the tracker.
ShortenUrl_counted(short_hash, raw) ==
    \E r \in {shorten(Store, short_hash, raw)} :
       /\ url_map' = r.url_map
       /\ cuckoo_table1' = r.t1
       /\ cuckoo_table2' = r.t2
       /\ last_cuckoo' = r.ok
       /\ url_tree' = r.tree
       /\ put_log' = DictSet(put_log, short_hash, r.url)
       /\ response' = [op |-> "shorten", key |-> short_hash, status |-> STATUS_OK,
                       body |-> popular_urls(most_frequent, r.url_map, INDEX_TOP)]
       /\ IF short_hash \in DOMAIN access_counter
          THEN UNCHANGED <<access_counter, most_frequent>>
          ELSE \E uf \in {update_frequency(access_counter, most_frequent, short_hash)} :
                  /\ access_counter' = uf.counter
                  /\ most_frequent' = uf.heap

\* POST /shorten.  hash_url hashes the url with the current time, so the
\* short key is any key, one already in use included.
ShortenUrl(short_hash, raw) ==
    \E r \in {shorten(Store, short_hash, raw)} :
       /\ url_map' = r.url_map
       /\ cuckoo_table1' = r.t1
       /\ cuckoo_table2' = r.t2
       /\ last_cuckoo' = r.ok
       /\ url_tree' = r.tree
       /\ put_log' = DictSet(put_log, short_hash, r.url)
       /\ response' = [op |-> "shorten", key |-> short_hash, status |-> STATUS_OK,
                       body |-> popular_urls(most_frequent, r.url_map, INDEX_TOP)]
       /\ UNCHANGED <<access_counter, most_frequent>>

\* GET /{short_url}, the url found; cap bounds the key's count in the model
RedirectFound(short_url, cap) ==
    LET original_url == lookup_url(url_map, cuckoo_table1, cuckoo_table2,
                                   url_tree, short_url)
        uf == update_frequency(access_counter, most_frequent, short_url)
    IN /\ ~Falsy(original_url)
       /\ CountOf(access_counter, short_url) < cap
       /\ access_counter' = uf.counter
       /\ most_frequent' = uf.heap
       /\ response' = [op |-> "redirect", key |-> short_url,
                       status |-> STATUS_REDIRECT, body |-> original_url[1]]
       /\ UNCHANGED <<url_map, cuckoo_table1, cuckoo_table2, url_tree,
                      put_log, last_cuckoo>>

\* GET /{short_url}, HTTPException(404)
RedirectNotFound(short_url) ==
    /\ Falsy(lookup_url(url_map, cuckoo_table1, cuckoo_table2, url_tree, short_url))
    /\ response' = [op |-> "redirect", key |-> short_url,
                    status |-> STATUS_NOT_FOUND, body |-> "URL not found"]
    /\ UNCHANGED <<url_map, cuckoo_table1, cuckoo_table2, url_tree,
                   access_counter, most_frequent, put_log, last_cuckoo>>

\* GET /
GetIndex ==
    /\ response' = [op |-> "index", key |-> NIL, status |-> STATUS_OK,
                    body |-> popular_urls(most_frequent, url_map, INDEX_TOP)]
    /\ UNCHANGED <<url_map, cuckoo_table1, cuckoo_table2, url_tree,
                   access_counter, most_frequent, put_log, last_cuckoo>>

\* The heap list after rounds heappop calls on it.
RECURSIVE pop_rounds(_, _)
pop_rounds(heap, rounds) ==
    IF rounds = 0 \/ heap = <<>> THEN heap
    ELSE pop_rounds(heappop(heap).heap, rounds - 1)

\* GET /stats/popular that pops from most_frequent itself, not from a copy.
GetPopularUrls_pops_heap ==
    /\ response' = [op |-> "popular", key |-> NIL, status |-> STATUS_OK,
                    body |-> popular_urls(most_frequent, url_map, STATS_TOP)]
    /\ most_frequent' = pop_rounds(most_frequent, Min(STATS_TOP, Len(most_frequent)))
    /\ UNCHANGED <<url_map, cuckoo_table1, cuckoo_table2, url_tree,
                   access_counter, put_log, last_cuckoo>>

\* GET /stats/popular
GetPopularUrls ==
    /\ response' = [op |-> "popular", key |-> NIL, status |-> STATUS_OK,
                    body |-> popular_urls(most_frequent, url_map, STATS_TOP)]
    /\ UNCHANGED <<url_map, cuckoo_table1, cuckoo_table2, url_tree,
                   access_counter, most_frequent, put_log, last_cuckoo>>

NoResponse == [op |-> "none", key |-> NIL, status |-> STATUS_OK, body |-> <<>>]

\* The module-level initialisation of main.py (lines 34-42), no data files.
InitCommon ==
    /\ url_map = <<>>
    /\ cuckoo_table1 = <<>>
    /\ cuckoo_table2 = <<>>
    /\ url_tree = EmptyTree
    /\ access_counter = <<>>
    /\ most_frequent = <<>>
    /\ response = NoResponse
    /\ put_log = <<>>
    /\ last_cuckoo = TRUE

Init == InitCommon

Next ==
    \/ \E k \in StoreKeys, raw \in RawUrls : ShortenUrl(k, raw)
    \/ \E k \in StoreKeys : RedirectFound(k, MaxCount)
    \/ \E k \in StoreKeys : RedirectNotFound(k)
    \/ GetIndex
    \/ GetPopularUrls

Spec == Init /\ [][Next]_vars

---------------------------------------------------------------------------
(* Claims about the whole store *)

\* What GET /{k} would answer in the current state.
Get(k) == lookup_url(url_map, cuckoo_table1, cuckoo_table2, url_tree, k)

\* C1: after any sequence of puts and gets, get(k) returns, for every key
\* k that has been put, the value of the most recent put of k; a get that
\* was answered carried that value.
RoundTrip ==
    /\ \A k \in DOMAIN put_log : Get(k) = <<put_log[k]>>
    /\ (response.op = "redirect" /\ response.status = STATUS_REDIRECT)
         => /\ response.key \in DOMAIN put_log
            /\ response.body = put_log[response.key]

\* A get answered with the latest value of a key whose cuckoo entry holds
\* an older value.
RoundTripWitness ==
    /\ response.op = "redirect"
    /\ response.status = STATUS_REDIRECT
    /\ response.body = "http://a"
    /\ cuckoo_lookup(cuckoo_table1, cuckoo_table2, response.key) = <<"https://">>

\* C2: in every reachable store state, for every key k that has been put,
\* the value held for k is the latest one in every structure that holds k:
\* RedBlackTree.search(k) returns it, cuckoo_lookup(k) returns it when it
\* finds k, and no slot of either cuckoo table holds k with an older value.
OverwriteEverywhere ==
    \A k \in DOMAIN put_log :
        /\ search(url_tree, k) = <<put_log[k]>>
        /\ cuckoo_lookup(cuckoo_table1, cuckoo_table2, k) \in {None, <<put_log[k]>>}
        /\ \A i \in DOMAIN cuckoo_table1 :
             cuckoo_table1[i][1] = k => cuckoo_table1[i][2] = put_log[k]
        /\ \A j \in DOMAIN cuckoo_table2 :
             cuckoo_table2[j][1] = k => cuckoo_table2[j][2] = put_log[k]

\* C7: when the cuckoo_insert of a put returned False, the put still
\* answered without an error, the tree holds every key put so far with its
\* latest value and get returns the latest value of every key put so far;
\* a later get of a key the cuckoo tables no longer hold is answered with
\* that value.
AuthoritativeFallback ==
    /\ (response.op = "shorten" /\ ~last_cuckoo)
         => /\ response.status = STATUS_OK
            /\ \A k \in DOMAIN put_log :
                 /\ search(url_tree, k) = <<put_log[k]>>
                 /\ Get(k) = <<put_log[k]>>
    /\ \A k \in DOMAIN put_log :
         cuckoo_lookup(cuckoo_table1, cuckoo_table2, k) = None
           => /\ search(url_tree, k) = <<put_log[k]>>
              /\ Get(k) = <<put_log[k]>>
    /\ (response.op = "redirect" /\ response.key \in DOMAIN put_log
        /\ cuckoo_lookup(cuckoo_table1, cuckoo_table2, response.key) = None)
         => /\ response.status = STATUS_REDIRECT
            /\ response.body = put_log[response.key]

\* The latest cuckoo_insert failed, and a get of the key it dropped has
\* been answered.
AuthoritativeFallbackWitness ==
    /\ ~last_cuckoo
    /\ response.op = "redirect"
    /\ response.status = STATUS_REDIRECT
    /\ response.key \in DOMAIN put_log
    /\ cuckoo_lookup(cuckoo_table1, cuckoo_table2, response.key) = None

\* C10: get(k) reports not-found exactly when k has never been put: every
\* get on a fresh store does, as long as nothing was put the popular list
\* is empty, and no get of a key that has been put does, whatever url was
\* submitted for it, the empty string included.
NotFoundIffNeverPut ==
    /\ \A k \in StoreKeys : Falsy(Get(k)) <=> k \notin DOMAIN put_log
    /\ response.op = "redirect"
         => (response.status = STATUS_NOT_FOUND <=> response.key \notin DOMAIN put_log)
    /\ put_log = <<>>
         => /\ popular_urls(most_frequent, url_map, STATS_TOP) = <<>>
            /\ popular_urls(most_frequent, url_map, INDEX_TOP) = <<>>

\* A get has been answered for a key whose submitted url was the empty
\* string, while another key has still never been put.
NotFoundWitness ==
    /\ response.op = "redirect"
    /\ response.status = STATUS_REDIRECT
    /\ response.body = NormaliseUrl("")
    /\ \E k \in StoreKeys : Falsy(Get(k))

\* The lookups a GET /{k} makes in the current state.
Probe(k) == lookup(url_map, cuckoo_table1, cuckoo_table2, url_tree, k)

Cuckoo(k) == cuckoo_lookup(cuckoo_table1, cuckoo_table2, k)

\* The step is a GET /{short_url}; the indexes are the same before and after
IsRedirectStep == response'.op = "redirect"

\* C11: every get(k) probes the cuckoo index first, probes the tree only
\* when the cuckoo index missed, and records the access only after one of
\* them hit; nothing is consulted before the cuckoo index and a get whose
\* cuckoo probe hits answers with the cuckoo index's value.
LookupCuckooFirst ==
    [][IsRedirectStep =>
         LET k == response'.key
             r == Probe(k)
         IN /\ r.probes[1] = "cuckoo"
            /\ \A i \in 1..Len(r.probes) :
                 r.probes[i] = "tree" => Falsy(Cuckoo(k))
            /\ access_counter' # access_counter
                 => ~Falsy(Cuckoo(k)) \/ ~Falsy(search(url_tree, k))
            /\ ~Falsy(Cuckoo(k))
                 => /\ response'.status = STATUS_REDIRECT
                    /\ response'.body = Cuckoo(k)[1]]_vars

\* C11 as the code has it: every get(k) reads url_map first, the cuckoo
\* tables only when url_map has no (non-empty) value for k, and the tree
\* only when the cuckoo tables have none either; it records the access
\* exactly when one of the three hit, and answers with the value of the
\* first one that hit, url_map's whenever url_map holds k.
LookupMapFirst ==
    [][IsRedirectStep =>
         LET k == response'.key
             r == Probe(k)
             m == DictGet(url_map, k)
         IN /\ r.probes \in {<<"url_map">>, <<"url_map", "cuckoo">>,
                             <<"url_map", "cuckoo", "tree">>}
            /\ Len(r.probes) >= 2 <=> Falsy(m)
            /\ Len(r.probes) = 3 <=> (Falsy(m) /\ Falsy(Cuckoo(k)))
            /\ r.value = IF ~Falsy(m) THEN m
                         ELSE IF ~Falsy(Cuckoo(k)) THEN Cuckoo(k)
                         ELSE search(url_tree, k)
            /\ IF Falsy(r.value)
               THEN /\ response'.status = STATUS_NOT_FOUND
                    /\ access_counter' = access_counter
                    /\ most_frequent' = most_frequent
               ELSE /\ response'.status = STATUS_REDIRECT
                    /\ response'.body = r.value[1]
                    /\ access_counter' # access_counter
                    /\ CountOf(access_counter', k) = CountOf(access_counter, k) + 1]_vars

\* A get answered from url_map alone with a value that differs from the one
\* the cuckoo tables hold for the key.
LookupMapFirstWitness ==
    /\ response.op = "redirect"
    /\ response.status = STATUS_REDIRECT
    /\ Probe(response.key).probes = <<"url_map">>
    /\ ~Falsy(Cuckoo(response.key))
    /\ Cuckoo(response.key)[1] # response.body
    /\ response.body = url_map[response.key]

\* C12: a put changes neither the access counter nor the priority heap,
\* whether its key is new or already present and whether its cuckoo insert
\* succeeded or failed; a key gets its first count only from an answered
\* get of that key.
PutLeavesTracker ==
    [][/\ response'.op = "shorten"
          => /\ access_counter' = access_counter
             /\ most_frequent' = most_frequent
       /\ \A k \in StoreKeys :
            (k \notin DOMAIN access_counter /\ k \in DOMAIN access_counter')
              => /\ response' = [op |-> "redirect", key |-> k,
                                 status |-> STATUS_REDIRECT, body |-> Get(k)[1]]
                 /\ access_counter'[k] = Increment]_vars

\* A put whose cuckoo insert failed has been answered for a key that has
\* no count, while another key has one.
PutLeavesTrackerWitness ==
    /\ response.op = "shorten"
    /\ ~last_cuckoo
    /\ response.key \in DOMAIN put_log
    /\ response.key \notin DOMAIN access_counter
    /\ access_counter # <<>>
    /\ Len(most_frequent) = Cardinality(DOMAIN access_counter)

---------------------------------------------------------------------------
(* Popularity specification: a store that already holds the keys of        *)
(* PopKeys, then any sequence of gets, popular-list requests and puts     *)
(* that overwrite the value of one stored key.                             *)

\* POST /shorten with the empty url for KEYS[i], ..., KEYS[n] in turn
RECURSIVE preload(_, _, _)
preload(s, i, n) ==
    IF i > n THEN s ELSE preload(shorten(s, KEYS[i], ""), i + 1, n)

Preloaded ==
    preload([url_map |-> <<>>, t1 |-> <<>>, t2 |-> <<>>, tree |-> EmptyTree, ok |-> TRUE],
            1, Cardinality(PopKeys))

InitPop ==
    /\ url_map = Preloaded.url_map
    /\ cuckoo_table1 = Preloaded.t1
    /\ cuckoo_table2 = Preloaded.t2
    /\ url_tree = Preloaded.tree
    /\ last_cuckoo = Preloaded.ok
    /\ put_log = Preloaded.url_map
    /\ access_counter = <<>>
    /\ most_frequent = <<>>
    /\ response = NoResponse

\* The stored key that later puts overwrite.
PopPutKey == KEYS[5]

\* The keys GET /{short_url} is asked for: the stored ones and one more.
PopGetKeys == PopKeys \cup {KEYS[Len(KEYS)]}

NextPop ==
    \/ \E raw \in RawUrls : ShortenUrl(PopPutKey, raw)
    \/ \E k \in PopGetKeys : RedirectFound(k, MaxPopCount)
    \/ \E k \in PopGetKeys : RedirectNotFound(k)
    \/ GetIndex
    \/ GetPopularUrls

SpecPop == InitPop /\ [][NextPop]_vars

\* C8: across any sequence of operations no key's access count decreases;
\* an answered get(k) raises the count of k by exactly 1 and leaves every
\* other key's count as it was; a get that is not found changes no count
\* and adds no key to the tracker.
PopularityMonotone ==
    [][ /\ \A k \in DOMAIN access_counter :
             /\ k \in DOMAIN access_counter'
             /\ access_counter'[k] >= access_counter[k]
        /\ (response'.op = "redirect" /\ response'.status = STATUS_REDIRECT)
             => /\ CountOf(access_counter', response'.key)
                     = CountOf(access_counter, response'.key) + 1
                /\ \A k \in PopGetKeys \ {response'.key} :
                     CountOf(access_counter', k) = CountOf(access_counter, k)
                /\ DOMAIN access_counter' = DOMAIN access_counter \cup {response'.key}
        /\ (response'.op = "redirect" /\ response'.status = STATUS_NOT_FOUND)
             => /\ access_counter' = access_counter
                /\ most_frequent' = most_frequent
        /\ response'.op \notin {"redirect"}
             => access_counter' = access_counter
      ]_vars

\* A key has been got twice and its count is 2, another key once, and a
\* get of a key never put has just been refused.
PopularityWitness ==
    /\ response.op = "redirect"
    /\ response.status = STATUS_NOT_FOUND
    /\ \E k \in DOMAIN access_counter : access_counter[k] = 2
    /\ \E k \in DOMAIN access_counter : access_counter[k] = 1

\* What topPopular(n) must be for the current counts and stored values.
IsTopOf(result, n) ==
    LET tracked == DOMAIN access_counter
        listed  == {result[i][1] : i \in 1..Len(result)}
    IN /\ Len(result) = Min(n, Cardinality(tracked))
       /\ Cardinality(listed) = Len(result)
       /\ listed \subseteq tracked
       /\ \A i \in 1..Len(result) :
            /\ result[i][2] = url_map[result[i][1]]
            /\ result[i][3] = access_counter[result[i][1]]
       /\ \A i \in 1..(Len(result) - 1) : result[i][3] >= result[i + 1][3]
       /\ \A k \in tracked \ listed :
            \A i \in 1..Len(result) : access_counter[k] <= result[i][3]

\* C9: after any sequence of puts and gets the popular list of length n
\* (5 on the index page, 10 on /stats/popular) has exactly
\* min(n, number of tracked keys) entries, in descending order of access
\* count, each with the key's current count and stored value, and no
\* tracked key left out has a higher count than a listed one.
TopKCorrect ==
    /\ IsTopOf(popular_urls(most_frequent, url_map, INDEX_TOP), INDEX_TOP)
    /\ IsTopOf(popular_urls(most_frequent, url_map, STATS_TOP), STATS_TOP)
    /\ response.op = "index" => IsTopOf(response.body, INDEX_TOP)
    /\ response.op = "popular" => IsTopOf(response.body, STATS_TOP)

\* The index page listed 5 of 6 tracked keys with unequal counts, the key
\* left out being one counted once, and the value of a counted key has
\* been overwritten.
TopKWitness ==
    /\ response.op = "index"
    /\ Len(response.body) = INDEX_TOP
    /\ Cardinality(DOMAIN access_counter) > INDEX_TOP
    /\ response.body[1][3] = 2
    /\ response.body[INDEX_TOP][3] = 1
    /\ url_map[PopPutKey] = "http://a"
    /\ PopPutKey \in DOMAIN access_counter

\* The length of the list a popular-list response carries.
TopOf(op) == IF op = "index" THEN INDEX_TOP ELSE STATS_TOP

\* C13: a topPopular call (the index page's list of 5 or /stats/popular's
\* list of 10) changes no access count, not the priority heap and no index;
\* the same call made again right after it returns the same sequence.
TopPopularReadOnly ==
    [][response'.op \in {"index", "popular"}
         => /\ access_counter' = access_counter
            /\ most_frequent' = most_frequent
            /\ url_map' = url_map
            /\ cuckoo_table1' = cuckoo_table1
            /\ cuckoo_table2' = cuckoo_table2
            /\ url_tree' = url_tree
            /\ response'.body
                 = popular_urls(most_frequent', url_map', TopOf(response'.op))
            /\ response.op = response'.op => response'.body = response.body]_vars

\* /stats/popular has listed all six tracked keys, with unequal counts,
\* and the heap still holds its six entries.
TopPopularWitness ==
    /\ response.op = "popular"
    /\ Len(response.body) = Cardinality(PopKeys)
    /\ response.body[1][3] > response.body[Len(response.body)][3]
    /\ Len(most_frequent) = Len(response.body)

---------------------------------------------------------------------------
(* Cuckoo-only specification: any sequence of cuckoo_insert calls *)

CuckooValues == {"https://", "http://a"}

CuckooInsert(k, v) ==
    \E r \in {cuckoo_insert(cuckoo_table1, cuckoo_table2, k, v)} :
       /\ cuckoo_table1' = r.t1
       /\ cuckoo_table2' = r.t2
       /\ last_cuckoo' = r.returned
       /\ response' = [op |-> "cuckoo_insert", key |-> k, status |-> STATUS_OK,
                       body |-> [inserted   |-> <<k, v>>,
                                 hand       |-> IF r.returned THEN None
                                                ELSE <<r.key, r.value>>,
                                 iterations |-> r.iterations,
                                 evicted    |-> r.evicted]]
       /\ UNCHANGED <<url_map, url_tree, access_counter, most_frequent, put_log>>

NextCuckoo == \E k \in CuckooKeys, v \in CuckooValues : CuckooInsert(k, v)

SpecCuckoo == InitCommon /\ [][NextCuckoo]_vars

---------------------------------------------------------------------------
(* Tree-only specification: any sequence of RedBlackTree.insert calls *)

TreeValues == {"https://"}

TreeInsertFresh(k, v) ==
    /\ k \notin DOMAIN url_tree.node
    /\ url_tree' = insert(url_tree, k, v)
    /\ response' = [op |-> "tree_insert", key |-> k, status |-> STATUS_OK, body |-> "fresh"]
    /\ put_log' = DictSet(put_log, k, v)
    /\ UNCHANGED <<url_map, cuckoo_table1, cuckoo_table2, access_counter,
                   most_frequent, last_cuckoo>>

TreeInsertExisting(k, v) ==
    /\ k \in DOMAIN url_tree.node
    /\ url_tree' = insert(url_tree, k, v)
    /\ response' = [op |-> "tree_insert", key |-> k, status |-> STATUS_OK, body |-> "existing"]
    /\ put_log' = DictSet(put_log, k, v)
    /\ UNCHANGED <<url_map, cuckoo_table1, cuckoo_table2, access_counter,
                   most_frequent, last_cuckoo>>

NextTree ==
    \E k \in TreeKeys, v \in TreeValues :
        \/ TreeInsertFresh(k, v)
        \/ TreeInsertExisting(k, v)

SpecTree == InitCommon /\ [][NextTree]_vars

\* Tree specification with values: fewer keys, each inserted with either
\* of two values, put_log being the reference map.
NumTreeMapKeys == 5
TreeMapKeys == KeysUpTo(NumTreeMapKeys)
TreeMapValues == {"https://", "http://a"}

NextTreeMap ==
    \E k \in TreeMapKeys, v \in TreeMapValues :
        \/ TreeInsertFresh(k, v)
        \/ TreeInsertExisting(k, v)

SpecTreeMap == InitCommon /\ [][NextTreeMap]_vars

\* C3: after every insert of any sequence of RedBlackTree.insert calls
\* (fresh and repeated keys, any order) the root is black, no red node has
\* a red child and every path from the root to the sentinel holds the same
\* number of black nodes.
RedBlackInvariants ==
    /\ RootBlack(url_tree)
    /\ NoRedRed(url_tree)
    /\ BlackBalanced(url_tree)

\* A tree of at least seven nodes, just grown by a fresh insert, whose root
\* has a red child with two black children that are nodes themselves: the
\* shape a recoloring pass followed by rotations leaves behind.
RedBlackWitness ==
    /\ response.op = "tree_insert"
    /\ response.body = "fresh"
    /\ Cardinality(DOMAIN url_tree.node) >= 7
    /\ \E n \in DOMAIN url_tree.node :
         /\ url_tree.node[n].color = RED
         /\ url_tree.node[n].parent = url_tree.root
         /\ url_tree.node[n].left # NIL
         /\ url_tree.node[n].right # NIL

\* C4: after any sequence of inserts inorder_traversal returns the keys in
\* strictly ascending order, every inserted key once: the search-tree
\* order survives every rotation.
InorderAscending ==
    LET s == inorder_traversal(url_tree) IN
    /\ StrictlyAscending(s)
    /\ {s[i][1] : i \in 1..Len(s)} = DOMAIN url_tree.node
    /\ Len(s) = Cardinality(DOMAIN url_tree.node)

\* All the tree keys are in, in a tree whose root is not the key inserted
\* first or second, so rotations have moved the root.
InorderWitness ==
    /\ Len(inorder_traversal(url_tree)) = Cardinality(TreeKeys)
    /\ url_tree.root \notin {KEYS[1], KEYS[2]}
    /\ KEYS[1] \in DOMAIN url_tree.node
    /\ url_tree.node[KEYS[1]].parent # NoNode

---------------------------------------------------------------------------
(* Claims about the cuckoo tables alone *)

SlotsMatchHash ==
    /\ \A i \in DOMAIN cuckoo_table1 : cuckoo_hash1(cuckoo_table1[i][1]) = i
    /\ \A j \in DOMAIN cuckoo_table2 : cuckoo_hash2(cuckoo_table2[j][1]) = j

\* C5: after any sequence of cuckoo_insert calls, successful or failed,
\* every non-empty slot i of table 1 holds a pair whose key has
\* cuckoo_hash1 = i, every non-empty slot j of table 2 a pair whose key has
\* cuckoo_hash2 = j, and cuckoo_lookup finds every key stored in the tables.
CuckooSlotCorrect ==
    /\ SlotsMatchHash
    /\ \A k \in TableKeys(cuckoo_table1) \cup TableKeys(cuckoo_table2) :
         cuckoo_lookup(cuckoo_table1, cuckoo_table2, k) # None

\* A failed insert has happened and left both tables occupied, table 2 in
\* two slots.
CuckooSlotWitness ==
    /\ response.op = "cuckoo_insert"
    /\ ~last_cuckoo
    /\ cuckoo_table1 # <<>>
    /\ Cardinality(DOMAIN cuckoo_table2) >= 2

\* C6: after any sequence of cuckoo_insert calls every key present in the
\* cuckoo tables occupies exactly one slot across the two tables, never a
\* slot of table 1 and a slot of table 2 at the same time.
CuckooKeyUnique ==
    /\ TableKeys(cuckoo_table1) \cap TableKeys(cuckoo_table2) = {}
    /\ \A i, j \in DOMAIN cuckoo_table1 :
         cuckoo_table1[i][1] = cuckoo_table1[j][1] => i = j
    /\ \A i, j \in DOMAIN cuckoo_table2 :
         cuckoo_table2[i][1] = cuckoo_table2[j][1] => i = j

\* C14: with budget M = max_iterations no cuckoo_insert call, successful
\* or failed, evicts more than M occupants; every call terminates.
EvictionsWithinBudget ==
    response.op = "cuckoo_insert"
      => /\ response.body.iterations <= MAX_ITERATIONS
         /\ response.body.evicted <= MAX_ITERATIONS

\* C14 as the code has it: a cuckoo_insert call makes at most M =
\* max_iterations passes of its loop, each evicting at most two occupants,
\* one per table; it succeeds in the pass in which the pair in hand lands
\* in an empty or same-key slot and fails exactly when M passes ended
\* without that, having evicted 2 * M occupants; no call evicts more than
\* 2 * M occupants and every call terminates.
EvictionsWithinTwiceBudget ==
    response.op = "cuckoo_insert"
      => LET b == response.body IN
         /\ b.iterations \in 1..MAX_ITERATIONS
         /\ b.evicted <= 2 * MAX_ITERATIONS
         /\ IF last_cuckoo
            THEN /\ b.hand = None
                 /\ b.evicted \in {2 * (b.iterations - 1), 2 * b.iterations - 1}
            ELSE /\ b.hand # None
                 /\ b.iterations = MAX_ITERATIONS
                 /\ b.evicted = 2 * MAX_ITERATIONS

\* A call has failed after evicting more occupants than its budget of
\* passes, and the tables hold a pair in each.
EvictionsWitness ==
    /\ response.op = "cuckoo_insert"
    /\ ~last_cuckoo
    /\ response.body.evicted > MAX_ITERATIONS
    /\ cuckoo_table1 # <<>>
    /\ cuckoo_table2 # <<>>

\* The step is a cuckoo_insert call that returned False, made on tables in
\* which every key occupied one slot and the inserted key was absent.
FailedFreshInsert ==
    /\ response'.op = "cuckoo_insert"
    /\ ~last_cuckoo'
    /\ CuckooKeyUnique
    /\ response'.key \notin TableKeys(cuckoo_table1) \cup TableKeys(cuckoo_table2)

\* C15: a cuckoo_insert(k, v) that returns False, made on tables in which
\* every key occupies one slot and k is absent, leaves the tables holding
\* the pairs stored before plus (k, v), all but exactly one: the pair in
\* hand when the budget ran out.  cuckoo_lookup misses that pair's key and
\* finds every other key with its value unchanged.
LossOnExhaustion ==
    [][FailedFreshInsert =>
         LET hand   == response'.body.hand
             before == TablePairs(cuckoo_table1) \cup TablePairs(cuckoo_table2)
                         \cup {response'.body.inserted}
             after  == TablePairs(cuckoo_table1') \cup TablePairs(cuckoo_table2')
         IN /\ hand \in before
            /\ after = before \ {hand}
            /\ Cardinality(DOMAIN cuckoo_table1') + Cardinality(DOMAIN cuckoo_table2')
                 = Cardinality(before) - 1
            /\ cuckoo_lookup(cuckoo_table1', cuckoo_table2', hand[1]) = None
            /\ \A p \in after :
                 cuckoo_lookup(cuckoo_table1', cuckoo_table2', p[1]) = <<p[2]>>]_vars

\* A cuckoo_insert has failed and dropped a pair other than the one it was
\* called with: the tables hold the inserted key and every key once, and
\* not the key of the pair left in hand.
LossWitness ==
    /\ response.op = "cuckoo_insert"
    /\ ~last_cuckoo
    /\ CuckooKeyUnique
    /\ response.body.hand # response.body.inserted
    /\ response.key \in TableKeys(cuckoo_table1) \cup TableKeys(cuckoo_table2)
    /\ response.body.hand[1] \notin TableKeys(cuckoo_table1) \cup TableKeys(cuckoo_table2)
    /\ Cardinality(DOMAIN cuckoo_table2) >= 2

\* C18: from any reachable table state, when cuckoo_insert(k, v) returns
\* True, every key j other than k that cuckoo_lookup found before the call
\* is still found after it, with the same value, also when j was moved to
\* its other table on the way.
SuccessPreservesOthers ==
    [][(response'.op = "cuckoo_insert" /\ last_cuckoo')
         => \A j \in CuckooKeys \ {response'.key} :
              cuckoo_lookup(cuckoo_table1, cuckoo_table2, j) # None
                => cuckoo_lookup(cuckoo_table1', cuckoo_table2', j)
                     = cuckoo_lookup(cuckoo_table1, cuckoo_table2, j)]_vars

---------------------------------------------------------------------------
(* Claims about the tree as a map *)

\* C16: RedBlackTree.insert(k, v) with k already in the tree changes only
\* the value field of k's node: the root, every node's left, right and
\* parent links and every node's color stay as they were and no node is
\* added.
OverwriteKeepsStructure ==
    [][(response'.op = "tree_insert" /\ response'.body = "existing")
         => LET k == response'.key IN
            /\ k \in DOMAIN url_tree.node
            /\ url_tree'.root = url_tree.root
            /\ DOMAIN url_tree'.node = DOMAIN url_tree.node
            /\ \A n \in DOMAIN url_tree.node :
                 /\ url_tree'.node[n].left = url_tree.node[n].left
                 /\ url_tree'.node[n].right = url_tree.node[n].right
                 /\ url_tree'.node[n].parent = url_tree.node[n].parent
                 /\ url_tree'.node[n].color = url_tree.node[n].color
                 /\ n # k => url_tree'.node[n].value = url_tree.node[n].value
            /\ url_tree'.node[k].value = put_log'[k]]_vars

\* The value of a black non-root node of a five-node tree has just been
\* overwritten with a value differing from its parent's.
OverwriteWitness ==
    /\ response.op = "tree_insert"
    /\ response.body = "existing"
    /\ Cardinality(DOMAIN url_tree.node) = Cardinality(TreeMapKeys)
    /\ response.key # url_tree.root
    /\ url_tree.node[response.key].color = BLACK
    /\ url_tree.node[response.key].value = "http://a"
    /\ url_tree.node[url_tree.node[response.key].parent].value = "https://"

\* C17: after any sequence of RedBlackTree.insert calls search(k) returns
\* the value of the latest insert(k, .) for every key inserted and None for
\* every key never inserted; an insert of k leaves the result of search(j)
\* as it was for every other key j, whatever it rotates and recolors.
SearchAgreesWithMap ==
    /\ [](\A k \in TreeMapKeys : search(url_tree, k) = DictGet(put_log, k))
    /\ [][response'.op = "tree_insert"
            => \A j \in TreeMapKeys \ {response'.key} :
                 search(url_tree', j) = search(url_tree, j)]_vars

\* All keys are in and the root has two children; search finds one value
\* at a node below the root's children and the other value at a node with
\* a left child.
SearchWitness ==
    /\ response.op = "tree_insert"
    /\ response.body = "fresh"
    /\ DOMAIN url_tree.node = TreeMapKeys
    /\ \E j, k \in TreeMapKeys :
         /\ search(url_tree, j) = <<"https://">>
         /\ search(url_tree, k) = <<"http://a">>
         /\ url_tree.node[j].parent \notin {NoNode, url_tree.root}
         /\ url_tree.node[k].left # NIL
    /\ url_tree.node[url_tree.root].left # NIL
    /\ url_tree.node[url_tree.root].right # NIL

---------------------------------------------------------------------------
(* Claims about the tracker *)

\* C19: after any sequence of update_frequency calls most_frequent holds
\* exactly one entry (-c, k) for each key k of access_counter, c being
\* access_counter[k], no entry for any other key, and is in the binary
\* min-heap order heappop relies on: no entry is below its parent.
CounterHeapAgree ==
    /\ Len(most_frequent) = Cardinality(DOMAIN access_counter)
    /\ \A k \in DOMAIN access_counter :
         /\ Cardinality(EntriesOf(most_frequent, k)) = 1
         /\ \A i \in EntriesOf(most_frequent, k) :
              most_frequent[i] = <<-access_counter[k], k>>
    /\ \A i \in 1..Len(most_frequent) : most_frequent[i][2] \in DOMAIN access_counter
    /\ \A i \in 2..Len(most_frequent) :
         ~ItemLess(most_frequent[i], most_frequent[i \div 2])

\* Six keys are tracked, the entry of a key counted twice lies below the
\* top of the heap and after an entry of a key counted once: the list is
\* a heap without being sorted, after in-place updates and heapify.
CounterHeapWitness ==
    /\ Len(most_frequent) = Cardinality(PopKeys)
    /\ response.op = "redirect"
    /\ response.status = STATUS_REDIRECT
    /\ access_counter[response.key] = 2
    /\ \E i, j \in 2..Len(most_frequent) :
         /\ i < j
         /\ most_frequent[i][1] = -1
         /\ most_frequent[j] = <<-2, response.key>>

\* Place of a tracked key in the order by descending count, equal counts
\* by ascending key.
Rank(k) ==
    1 + Cardinality({j \in DOMAIN access_counter :
                       \/ access_counter[j] > access_counter[k]
                       \/ (access_counter[j] = access_counter[k] /\ j < k)})

\* The list is the first entries of that order.
IsRankedTop(result, n) ==
    /\ Len(result) = Min(n, Cardinality(DOMAIN access_counter))
    /\ \A i \in 1..Len(result) :
         /\ result[i][1] \in DOMAIN access_counter
         /\ Rank(result[i][1]) = i
         /\ result[i][2] = url_map[result[i][1]]
         /\ result[i][3] = access_counter[result[i][1]]

\* C20: the sequence topPopular returns is a function of the current
\* access counts alone: the keys by descending count, keys of equal count
\* by ascending key, whatever the order in which the accesses happened, so
\* two histories ending in the same counts yield the same sequence.
TopKDeterministic ==
    /\ IsRankedTop(popular_urls(most_frequent, url_map, INDEX_TOP), INDEX_TOP)
    /\ IsRankedTop(popular_urls(most_frequent, url_map, STATS_TOP), STATS_TOP)
    /\ response.op \in {"index", "popular"}
         => IsRankedTop(response.body, TopOf(response.op))

\* The index page listed 5 of 6 tracked keys, the fifth and the key left
\* out having the same count, from a heap whose list is not in the order
\* of the listing.
TopKDeterministicWitness ==
    /\ response.op = "index"
    /\ Len(response.body) = INDEX_TOP
    /\ Len(most_frequent) = INDEX_TOP + 1
    /\ \E k \in DOMAIN access_counter :
         /\ Rank(k) = INDEX_TOP + 1
         /\ access_counter[k] = response.body[INDEX_TOP][3]
    /\ response.body[1][3] = response.body[2][3]
    /\ \E i \in 1..INDEX_TOP : most_frequent[i][2] # response.body[i][1]

=============================================================================
